---- MODULE Spec2Model ----
(***************************************************************************)
(* A model of Subst (src/sh.go), the shell parameter-expansion engine of   *)
(* the sh package.  A Go string is a sequence of one-character strings     *)
(* (bytes; the alphabets below are ASCII, so a rune is one byte).          *)
(***************************************************************************)
EXTENDS Integers, Sequences, FiniteSets, TLC

\* ------------------------------------------------------------------ bounds
MaxStr == 3      \* longest subject
MaxPat == 2      \* longest glob pattern drawn from PatAlphabet
MaxRepl == 1     \* longest replacement text
MaxNum == 4      \* slice numerals are drawn from -MaxNum..MaxNum

\* --------------------------------------------------------- string helpers
\* s[lo:hi] of Go, 0-based and half-open; the caller keeps 0 <= lo <= hi <= len.
Slice(s, lo, hi) == SubSeq(s, lo + 1, hi)

\* s[i] of Go, 0-based.
At(s, i) == s[i + 1]

Contains(s, c) == \E k \in 1..Len(s) : s[k] = c

IsPrefixOf(p, s) == Len(p) <= Len(s) /\ SubSeq(s, 1, Len(p)) = p

\* All sequences over alphabet A of length at most n.
RECURSIVE StringsUpTo(_, _)
StringsUpTo(A, n) ==
  IF n = 0 THEN {<<>>}
  ELSE LET shorter == StringsUpTo(A, n - 1)
       IN shorter \cup {Append(s, c) : s \in shorter, c \in A}

\* The bytes the model uses, in ASCII order; Ord gives the order of two bytes.
AsciiOrder ==
  << "#", "%", "*", "+", ",", "-", ".", "/", "0", "1", "2", "3", "4", "5",
     "6", "7", "8", "9", ":", "=", "?", "A", "B", "X", "[", "\\", "]", "^",
     "a", "b", "x" >>

Ord(c) == CHOOSE k \in 1..Len(AsciiOrder) : AsciiOrder[k] = c

\* ------------------------------------------------- path/filepath.Match
\* A definition that names an intermediate value takes it as a parameter; the
\* operator without the suffix is the function of the Go source.

\* getEsc: one (possibly escaped) character of a character class.
getEsc(chunk) ==
  IF Len(chunk) = 0 \/ chunk[1] = "-" \/ chunk[1] = "]"
  THEN [r |-> "", nchunk |-> <<>>, err |-> TRUE]
  ELSE LET c1 == IF chunk[1] = "\\" THEN Tail(chunk) ELSE chunk
       IN IF Len(c1) = 0
          THEN [r |-> "", nchunk |-> <<>>, err |-> TRUE]
          ELSE [r |-> c1[1], nchunk |-> Tail(c1), err |-> Len(Tail(c1)) = 0]

\* The range loop of a character class: chunk is what follows "[" or "[^",
\* r the byte read from the name (hasR = FALSE once the match has failed).
RECURSIVE classRanges(_, _, _, _, _)
classHi(lo, hi, r, hasR, match, nrange) ==
  IF hi.err THEN [chunk |-> <<>>, match |-> FALSE, err |-> TRUE]
  ELSE classRanges(hi.nchunk, r, hasR,
                   match \/ (hasR /\ Ord(lo.r) <= Ord(r) /\ Ord(r) <= Ord(hi.r)),
                   nrange + 1)

classLo(lo, r, hasR, match, nrange) ==
  IF lo.err THEN [chunk |-> <<>>, match |-> FALSE, err |-> TRUE]
  ELSE IF lo.nchunk[1] = "-"
  THEN classHi(lo, getEsc(Tail(lo.nchunk)), r, hasR, match, nrange)
  ELSE classRanges(lo.nchunk, r, hasR,
                   match \/ (hasR /\ Ord(lo.r) = Ord(r)), nrange + 1)

classRanges(chunk, r, hasR, match, nrange) ==
  IF Len(chunk) > 0 /\ chunk[1] = "]" /\ nrange > 0
  THEN [chunk |-> Tail(chunk), match |-> match, err |-> FALSE]
  ELSE classLo(getEsc(chunk), r, hasR, match, nrange)

\* matchChunk: the chunk (no unbracketed star) against a prefix of s.  After a
\* failure the chunk is still scanned to the end for a malformed pattern.
RECURSIVE matchChunkFrom(_, _, _)
matchClass(cls, negated, s1, failed) ==
  IF cls.err THEN [rest |-> <<>>, ok |-> FALSE, err |-> TRUE]
  ELSE matchChunkFrom(cls.chunk, s1, failed \/ (cls.match = negated))

matchChunkFrom(chunk, s, wasFailed) ==
  IF Len(chunk) = 0
  THEN IF wasFailed THEN [rest |-> <<>>, ok |-> FALSE, err |-> FALSE]
       ELSE [rest |-> s, ok |-> TRUE, err |-> FALSE]
  ELSE LET failed == wasFailed \/ Len(s) = 0
           s1 == IF failed THEN s ELSE Tail(s)
           negated == Len(chunk) > 1 /\ chunk[2] = "^"
       IN CASE chunk[1] = "[" ->
                 matchClass(classRanges(IF negated THEN Tail(Tail(chunk)) ELSE Tail(chunk),
                                        IF failed THEN "" ELSE s[1], ~failed, FALSE, 0),
                            negated, s1, failed)
            [] chunk[1] = "?" ->
                 matchChunkFrom(Tail(chunk), s1, failed \/ s[1] = "/")
            [] chunk[1] = "\\" ->
                 IF Len(chunk) = 1 THEN [rest |-> <<>>, ok |-> FALSE, err |-> TRUE]
                 ELSE matchChunkFrom(Tail(Tail(chunk)), s1, failed \/ chunk[2] # s[1])
            [] OTHER ->
                 matchChunkFrom(Tail(chunk), s1, failed \/ chunk[1] # s[1])

matchChunk(chunk, s) == matchChunkFrom(chunk, s, FALSE)

\* scanChunk: the index (0-based) where the chunk starting at pattern[i] ends:
\* the first star outside brackets, a backslash skipping the byte after it.
RECURSIVE chunkEnd(_, _, _)
chunkEnd(pattern, i, inrange) ==
  IF i >= Len(pattern) THEN i
  ELSE CASE At(pattern, i) = "\\" ->
              chunkEnd(pattern, IF i + 1 < Len(pattern) THEN i + 2 ELSE i + 1, inrange)
         [] At(pattern, i) = "[" -> chunkEnd(pattern, i + 1, TRUE)
         [] At(pattern, i) = "]" -> chunkEnd(pattern, i + 1, FALSE)
         [] At(pattern, i) = "*" /\ ~inrange -> i
         [] OTHER -> chunkEnd(pattern, i + 1, inrange)

RECURSIVE dropStars(_)
dropStars(pattern) ==
  IF Len(pattern) > 0 /\ pattern[1] = "*" THEN dropStars(Tail(pattern)) ELSE pattern

scanChunkCut(star, p, e) ==
  [star |-> star, chunk |-> Slice(p, 0, e), rest |-> Slice(p, e, Len(p))]

scanChunkFrom(star, p) == scanChunkCut(star, p, chunkEnd(p, 0, FALSE))

scanChunk(pattern) ==
  scanChunkFrom(Len(pattern) > 0 /\ pattern[1] = "*", dropStars(pattern))

\* Match reports whether name matches the shell file name pattern; a malformed
\* pattern is an error, which every caller in Subst discards (matched = false).
\* '*' and '?' never match the separator '/'.
RECURSIVE Match(_, _)
RECURSIVE matchAfterStar(_, _, _, _)
matchAfterStarTry(chunk, rest, name, i, m) ==
  IF m.ok
  THEN IF Len(rest) = 0 /\ Len(m.rest) > 0
       THEN matchAfterStar(chunk, rest, name, i + 1)
       ELSE Match(rest, m.rest)
  ELSE IF m.err THEN FALSE
  ELSE matchAfterStar(chunk, rest, name, i + 1)

\* The loop that skips i+1 bytes of name for a star; it cannot skip a '/'.
matchAfterStar(chunk, rest, name, i) ==
  IF i >= Len(name) \/ At(name, i) = "/" THEN FALSE
  ELSE matchAfterStarTry(chunk, rest, name, i,
                         matchChunk(chunk, Slice(name, i + 1, Len(name))))

matchFirst(sc, name, m) ==
  IF m.ok /\ (Len(m.rest) = 0 \/ Len(sc.rest) > 0) THEN Match(sc.rest, m.rest)
  ELSE IF m.err THEN FALSE
  ELSE IF sc.star THEN matchAfterStar(sc.chunk, sc.rest, name, 0)
  ELSE FALSE

matchScanned(sc, name) ==
  IF sc.star /\ sc.chunk = <<>> THEN ~Contains(name, "/")
  ELSE matchFirst(sc, name, matchChunk(sc.chunk, name))

Match(pattern, name) ==
  IF Len(pattern) = 0 THEN Len(name) = 0
  ELSE matchScanned(scanChunk(pattern), name)

\* ------------------------------------------------------------ Subst: strip
\* The loop of stripLeft: the first i in from..strLen-1 whose prefix str[0:i]
\* matches, strLen when the loop runs out.
RECURSIVE stripLeftScan(_, _, _)
stripLeftScan(str, pat, i) ==
  IF i >= Len(str) THEN i
  ELSE IF Match(pat, Slice(str, 0, i)) THEN i
  ELSE stripLeftScan(str, pat, i + 1)

\* Seeded fault for C3: the scan starts at i = 1 and so never tries the empty
\* prefix.
stripLeftFromOne(str, pat) ==
  IF Len(str) = 0 THEN str
  ELSE Slice(str, stripLeftScan(str, pat, 1), Len(str))

\* for '#'
stripLeft(str, pat) ==
  IF Len(str) = 0 THEN str
  ELSE Slice(str, stripLeftScan(str, pat, 0), Len(str))

\* The loop of stripLeftGreedy: the first i in from..0 descending whose prefix
\* str[:i] matches, -1 when none does.
RECURSIVE stripLeftGreedyScan(_, _, _)
stripLeftGreedyScan(str, pat, i) ==
  IF i < 0 THEN i
  ELSE IF Match(pat, Slice(str, 0, i)) THEN i
  ELSE stripLeftGreedyScan(str, pat, i - 1)

stripLeftGreedyCut(str, i) == IF i < 0 THEN str ELSE Slice(str, i, Len(str))

\* for '##'
stripLeftGreedy(str, pat) ==
  IF Len(str) = 0 THEN str
  ELSE stripLeftGreedyCut(str, stripLeftGreedyScan(str, pat, Len(str)))

\* The loop of stripRight: the first i in from..0 descending whose suffix
\* str[i:] matches, -1 when none does.
RECURSIVE stripRightScan(_, _, _)
stripRightScan(str, pat, i) ==
  IF i < 0 THEN i
  ELSE IF Match(pat, Slice(str, i, Len(str))) THEN i
  ELSE stripRightScan(str, pat, i - 1)

\* Seeded fault for C2: no match gives the empty string, as '#' does.
stripRightCutEmpty(str, i) == IF i < 0 THEN <<>> ELSE Slice(str, 0, i)

stripRightCut(str, i) == IF i < 0 THEN str ELSE Slice(str, 0, i)

\* for '%'
stripRight(str, pat) ==
  IF Len(str) = 0 THEN str
  ELSE stripRightCut(str, stripRightScan(str, pat, Len(str)))

\* The loop of stripRightGreedy: the first i in from..strLen-1 whose suffix
\* str[i:] matches, strLen when the loop runs out.
RECURSIVE stripRightGreedyScan(_, _, _)
stripRightGreedyScan(str, pat, i) ==
  IF i >= Len(str) THEN i
  ELSE IF Match(pat, Slice(str, i, Len(str))) THEN i
  ELSE stripRightGreedyScan(str, pat, i + 1)

\* for '%%'
stripRightGreedy(str, pat) ==
  IF Len(str) = 0 THEN str
  ELSE Slice(str, 0, stripRightGreedyScan(str, pat, 0))

\* ---------------------------------------------------------- Subst: replace
\* foundGlob: the pattern holds a '*' byte (escaped or not).
foundGlob(pat) == Contains(pat, "*")

\* The inner loop of the glob branch: the first i in from..start descending
\* with str[start:i] matching, start-1 when none does.
RECURSIVE globEnd(_, _, _, _)
globEnd(str, pat, start, i) ==
  IF i < start THEN i
  ELSE IF Match(pat, Slice(str, start, i)) THEN i
  ELSE globEnd(str, pat, start, i - 1)

\* The outer loop of the glob branch, acc being the strings.Builder.
RECURSIVE substGlob(_, _, _, _, _)
substGlobStep(str, pat, repl, start, acc, i) ==
  IF i < start
  THEN substGlob(str, pat, repl, start + 1, Append(acc, At(str, start)))
  ELSE [replaced |-> acc \o repl, left |-> Slice(str, i, Len(str))]

substGlob(str, pat, repl, start, acc) ==
  IF start >= Len(str) THEN [replaced |-> acc, left |-> <<>>]
  ELSE substGlobStep(str, pat, repl, start, acc, globEnd(str, pat, start, Len(str)))

\* The loop of the empty-pattern branch: repl before every byte.
RECURSIVE substEmpty(_, _, _, _)
substEmpty(str, repl, start, acc) ==
  IF start >= Len(str) THEN [replaced |-> acc, left |-> <<>>]
  ELSE substEmpty(str, repl, start + 1, Append(acc \o repl, At(str, start)))

\* The inner loop of the exact branch: the first i in from..strLen ascending
\* with str[start:i] matching, strLen+1 when none does.
RECURSIVE exactEnd(_, _, _, _)
exactEnd(str, pat, start, i) ==
  IF i > Len(str) THEN i
  ELSE IF Match(pat, Slice(str, start, i)) THEN i
  ELSE exactEnd(str, pat, start, i + 1)

\* The outer loop of the exact branch.
RECURSIVE substExact(_, _, _, _, _)
substExactStep(str, pat, repl, start, acc, i) ==
  IF i > Len(str)
  THEN substExact(str, pat, repl, start + 1, Append(acc, At(str, start)))
  ELSE [replaced |-> acc \o repl, left |-> Slice(str, i, Len(str))]

substExact(str, pat, repl, start, acc) ==
  IF start >= Len(str) THEN [replaced |-> acc, left |-> <<>>]
  ELSE substExactStep(str, pat, repl, start, acc, exactEnd(str, pat, start, start + 1))

\* for '/': one find-and-replace over str; left is the tail after the match,
\* empty when nothing matched or the match ran to the end.
subst(str, pat, repl) ==
  IF foundGlob(pat) THEN substGlob(str, pat, repl, 0, <<>>)
  ELSE IF Len(pat) = 0 THEN substEmpty(str, repl, 0, <<>>)
  ELSE substExact(str, pat, repl, 0, <<>>)

\* The dispatcher's search for the '/' that ends the pattern: the first index
\* i >= skip with pattern[i] = '/' and pattern[i-1] # '\', len(pattern) if none.
RECURSIVE findSlash(_, _)
findSlash(pattern, i) ==
  IF i >= Len(pattern) THEN i
  ELSE IF At(pattern, i) = "/" /\ At(pattern, i - 1) # "\\" THEN i
  ELSE findSlash(pattern, i + 1)

\* ------------------------------------------------------ Subst: case, slice
LowerCase == << "a", "b", "x" >>
UpperCase == << "A", "B", "X" >>

\* strings.ToUpper and strings.ToLower on ASCII.
ToUpperByte(c) ==
  IF \E k \in 1..Len(LowerCase) : LowerCase[k] = c
  THEN UpperCase[CHOOSE k \in 1..Len(LowerCase) : LowerCase[k] = c]
  ELSE c

ToLowerByte(c) ==
  IF \E k \in 1..Len(UpperCase) : UpperCase[k] = c
  THEN LowerCase[CHOOSE k \in 1..Len(UpperCase) : UpperCase[k] = c]
  ELSE c

ToUpper(s) == [k \in 1..Len(s) |-> ToUpperByte(s[k])]
ToLower(s) == [k \in 1..Len(s) |-> ToLowerByte(s[k])]

Digits == << "0", "1", "2", "3", "4", "5", "6", "7", "8", "9" >>
IsDigit(c) == \E k \in 1..Len(Digits) : Digits[k] = c
DigitVal(c) == (CHOOSE k \in 1..Len(Digits) : Digits[k] = c) - 1

RECURSIVE DigitsVal(_, _)
DigitsVal(s, acc) ==
  IF Len(s) = 0 THEN acc ELSE DigitsVal(Tail(s), acc * 10 + DigitVal(s[1]))

\* strconv.Atoi: an optional sign and at least one decimal digit.
Atoi(s) ==
  LET signed == Len(s) > 0 /\ s[1] \in {"+", "-"}
      body == IF signed THEN Tail(s) ELSE s
  IN IF Len(body) = 0 \/ \E k \in 1..Len(body) : ~IsDigit(body[k])
     THEN [ok |-> FALSE, val |-> 0]
     ELSE [ok |-> TRUE,
           val |-> IF signed /\ s[1] = "-" THEN 0 - DigitsVal(body, 0)
                   ELSE DigitsVal(body, 0)]

Max(a, b) == IF a >= b THEN a ELSE b
Min(a, b) == IF a <= b THEN a ELSE b

\* ------------------------------------------------------------- outcomes
BadSubstitution(pattern) == pattern \o << ": Bad substitution" >>
UnknownPattern(pattern) == << "Unknown pattern: " >> \o pattern
AtoiError == << "strconv.Atoi: invalid syntax" >>
SliceBoundsError == << "runtime error: slice bounds out of range" >>

Return(r) == [kind |-> "return", result |-> r, panicVal |-> <<>>, pat |-> <<>>, repl |-> <<>>]
Panic(v) == [kind |-> "panic", result |-> <<>>, panicVal |-> v, pat |-> <<>>, repl |-> <<>>]
EnterSubstAll(p, r) == [kind |-> "substAll", result |-> <<>>, panicVal |-> <<>>, pat |-> p, repl |-> r]

\* str[lo:hi] with Go's run-time bounds check.
CheckedSlice(str, lo, hi) ==
  IF 0 <= lo /\ lo <= hi /\ hi <= Len(str) THEN Return(Slice(str, lo, hi))
  ELSE Panic(SliceBoundsError)

\* case '#'
caseHash(str, pattern) ==
  IF Len(pattern) > 1 /\ pattern[2] = "#"
  THEN Return(stripLeftGreedy(str, Slice(pattern, 2, Len(pattern))))
  ELSE Return(stripLeft(str, Slice(pattern, 1, Len(pattern))))

\* case '%'
casePercent(str, pattern) ==
  IF Len(pattern) > 1 /\ pattern[2] = "%"
  THEN Return(stripRightGreedy(str, Slice(pattern, 2, Len(pattern))))
  ELSE Return(stripRight(str, Slice(pattern, 1, Len(pattern))))

\* result = replaced + left
substOnce(s) == Return(s.replaced \o s.left)

\* case '/', from the index i of the '/' that ends the pattern (len(pattern)
\* when there is none).
caseSlashAt(str, pattern, skip, i) ==
  LET j == IF i = Len(pattern) THEN i ELSE i + 1
  IN IF skip = 2
     THEN EnterSubstAll(Slice(pattern, skip, i), Slice(pattern, j, Len(pattern)))
     ELSE substOnce(subst(str, Slice(pattern, skip, i), Slice(pattern, j, Len(pattern))))

caseSlashSkip(str, pattern, skip) ==
  caseSlashAt(str, pattern, skip, findSlash(pattern, skip))

caseSlash(str, pattern) ==
  caseSlashSkip(str, pattern, IF Len(pattern) > 1 /\ pattern[2] = "/" THEN 2 ELSE 1)

\* case '^': str[:1] and str[1:] are checked slices.
caseCaret(str, pattern) ==
  IF Len(pattern) > 1 /\ pattern[2] = "^" THEN Return(ToUpper(str))
  ELSE IF Len(str) < 1 THEN Panic(SliceBoundsError)
  ELSE Return(ToUpper(Slice(str, 0, 1)) \o Slice(str, 1, Len(str)))

\* case ','
caseComma(str, pattern) ==
  IF Len(pattern) > 1 /\ pattern[2] = "," THEN Return(ToLower(str))
  ELSE IF Len(str) < 1 THEN Panic(SliceBoundsError)
  ELSE Return(ToLower(Slice(str, 0, 1)) \o Slice(str, 1, Len(str)))

\* case '-', '='
caseDefault(str, pattern) ==
  Return(IF str = <<>> THEN Slice(pattern, 1, Len(pattern)) ELSE str)

\* case '+'
caseAlternate(str, pattern) ==
  Return(IF str = <<>> THEN str ELSE Slice(pattern, 1, Len(pattern)))

\* Seeded fault for C8: '?' without its check of an empty subject.
caseQuestionLenient(str, pattern) == Return(str)

\* case '?'
caseQuestion(str, pattern) ==
  IF str = <<>> THEN Panic(BadSubstitution(pattern)) ELSE Return(str)

\* The search for the second ':' of a slice expression.
RECURSIVE findColon(_, _)
findColon(pattern, i) ==
  IF i >= Len(pattern) THEN i
  ELSE IF At(pattern, i) = ":" THEN i
  ELSE findColon(pattern, i + 1)

\* Seeded fault for C7: the start without its floor of 0.
sliceStartNoFloor(str, p1, n1) ==
  IF p1 = <<>> THEN 0 ELSE Min(n1.val, Len(str))

\* start = max(Must(Atoi(p1)), 0), then min(start, strLen); 0 for an empty p1.
sliceStart(str, p1, n1) ==
  IF p1 = <<>> THEN 0 ELSE Min(Max(n1.val, 0), Len(str))

\* end: strLen without p2, start for a bare ":", strLen+l for l < 0, else start+l.
sliceEnd(str, p2, n2, start) ==
  IF p2 = <<>> THEN Len(str)
  ELSE IF p2 = << ":" >> THEN start
  ELSE IF n2.val < 0 THEN Len(str) + n2.val ELSE start + n2.val

sliceCut(str, pattern, start, end) ==
  IF end < start THEN Panic(BadSubstitution(pattern))
  ELSE CheckedSlice(str, start, end)

sliceWindow(str, pattern, p2, n2, start) ==
  sliceCut(str, pattern, start, sliceEnd(str, p2, n2, start))

\* Must panics on what Atoi rejects: p1 when it is not empty, p2[1:] when p2
\* is more than a bare ":".
sliceParsed(str, pattern, p1, p2, n1, n2) ==
  IF p1 # <<>> /\ ~n1.ok THEN Panic(AtoiError)
  ELSE IF Len(p2) > 1 /\ ~n2.ok THEN Panic(AtoiError)
  ELSE sliceWindow(str, pattern, p2, n2, sliceStart(str, p1, n1))

sliceParts(str, pattern, p1, p2) ==
  sliceParsed(str, pattern, p1, p2, Atoi(p1), Atoi(IF p2 = <<>> THEN p2 ELSE Tail(p2)))

sliceAt(str, pattern, i) ==
  sliceParts(str, pattern, Slice(pattern, 1, i), Slice(pattern, i, Len(pattern)))

\* case ':'
caseColon(str, pattern) ==
  IF Len(pattern) = 1 THEN Panic(BadSubstitution(pattern))
  ELSE sliceAt(str, pattern, findColon(pattern, 1))

\* Subst up to its return, its panic or its entry into the substAll loop.
SubstOutcome(str, pattern) ==
  IF Len(pattern) = 0 THEN Return(str)
  ELSE CASE pattern[1] = "#" -> caseHash(str, pattern)
         [] pattern[1] = "%" -> casePercent(str, pattern)
         [] pattern[1] = "/" -> caseSlash(str, pattern)
         [] pattern[1] = "^" -> caseCaret(str, pattern)
         [] pattern[1] = "," -> caseComma(str, pattern)
         [] pattern[1] \in {"-", "="} -> caseDefault(str, pattern)
         [] pattern[1] = "+" -> caseAlternate(str, pattern)
         [] pattern[1] = "?" -> caseQuestion(str, pattern)
         [] pattern[1] = ":" -> caseColon(str, pattern)
         [] OTHER -> Panic(UnknownPattern(pattern))

\* --------------------------------------------------------------- inputs
SubjAlphabet == {"a", "B", "/"}
PatAlphabet == {"a", "/", "*", "?", "\\"}
ReplAlphabet == {"a"}

Subjects == StringsUpTo(SubjAlphabet, MaxStr)

\* Beside the patterns over PatAlphabet: character classes, well-formed and
\* not, and some longer patterns of the shapes the tests use (h*l, l*o, l\*o).
ExtraPatterns ==
  { << "[", "a", "]" >>, << "[", "^", "a", "]" >>, << "[", "B", "-", "a", "]" >>,
    << "*", "[", "a", "]" >>, << "[", "a" >>,
    << "a", "*", "a" >>, << "a", "*", "B" >>, << "B", "*", "a" >>,
    << "?", "*", "?" >>, << "a", "\\", "*" >>, << "*", "/", "*" >> }

Patterns == StringsUpTo(PatAlphabet, MaxPat) \cup ExtraPatterns

Repls == StringsUpTo(ReplAlphabet, MaxRepl)

StripExprs ==
  { op \o p : op \in { << "#" >>, << "#", "#" >>, << "%" >>, << "%", "%" >> },
              p \in Patterns }

ReplaceExprs ==
  { op \o p : op \in { << "/" >>, << "/", "/" >> }, p \in Patterns }
  \cup { op \o p \o << "/" >> \o r :
           op \in { << "/" >>, << "/", "/" >> }, p \in Patterns, r \in Repls }

\* strconv.Itoa, for the numerals of the slice expressions.
RECURSIVE NatDigits(_)
NatDigits(n) ==
  IF n < 10 THEN << Digits[n + 1] >>
  ELSE Append(NatDigits(n \div 10), Digits[(n % 10) + 1])

Itoa(n) == IF n < 0 THEN << "-" >> \o NatDigits(0 - n) ELSE NatDigits(n)

Numerals ==
  { Itoa(n) : n \in (0 - MaxNum)..MaxNum }
  \cup { << >>, << "1", "0" >>, << "-", "1", "0" >>, << "+", "1" >>, << "-" >>, << "x" >> }

SliceExprs ==
  { << ":" >> \o n : n \in Numerals }
  \cup { << ":" >> \o n \o << ":" >> \o m : n \in Numerals, m \in Numerals }

TagAlphabet == {"#", "%", "/", "^", ",", "-", "=", "+", "?", ":", ".", "a"}

ShortExprs == StringsUpTo(TagAlphabet, 2)

Exprs == StripExprs \cup ReplaceExprs \cup SliceExprs \cup ShortExprs

\* ---------------------------------------------------------- state machine
VARIABLES
  pc,        \* "call", "substAll" (inside the loop of substAll), "return", "panic"
  subject,   \* the string the caller passed
  pattern,   \* the modifier expression the caller passed
  str,       \* Subst's local str, which substAll reassigns
  pat,       \* substAll's pattern
  repl,      \* substAll's replacement
  builder,   \* substAll's strings.Builder
  rounds,    \* iterations of substAll's loop so far
  result,    \* the returned string
  panicVal   \* the value Subst panicked with

vars == << pc, subject, pattern, str, pat, repl, builder, rounds, result, panicVal >>

\* The loop of substAll has no bound of its own; the model stops following a
\* call after MaxRounds iterations.
MaxRounds == MaxStr + 2

Init ==
  /\ pc = "call"
  /\ subject \in Subjects
  /\ pattern \in Exprs
  /\ str = subject
  /\ pat = <<>>
  /\ repl = <<>>
  /\ builder = <<>>
  /\ rounds = 0
  /\ result = <<>>
  /\ panicVal = <<>>

\* Subst(str, pattern) up to its return or panic, or to the first iteration of
\* substAll.
Leave(o) ==
  /\ pc' = o.kind
  /\ result' = o.result
  /\ panicVal' = o.panicVal
  /\ pat' = o.pat
  /\ repl' = o.repl

Call ==
  /\ pc = "call"
  /\ Leave(SubstOutcome(str, pattern))
  /\ UNCHANGED << subject, pattern, str, builder, rounds >>

\* One iteration of the loop of substAll.
Advance(s) ==
  /\ builder' = builder \o s.replaced
  /\ IF s.left = <<>>
     THEN pc' = "return" /\ result' = builder \o s.replaced /\ str' = str
     ELSE pc' = pc /\ result' = result /\ str' = s.left

Round ==
  /\ pc = "substAll"
  /\ rounds < MaxRounds
  /\ Advance(subst(str, pat, repl))
  /\ rounds' = rounds + 1
  /\ UNCHANGED << subject, pattern, pat, repl, panicVal >>

Next == Call \/ Round

Spec == Init /\ [][Next]_vars

\* =================================================================== claims
Finished == pc \in {"return", "panic"}

\* The expression is the one-character tag followed by a payload that does not
\* repeat the tag; the expression is the doubled tag followed by a payload.
Single(tag) == Len(pattern) >= 1 /\ pattern[1] = tag /\ (Len(pattern) = 1 \/ pattern[2] # tag)
Double(tag) == Len(pattern) >= 2 /\ pattern[1] = tag /\ pattern[2] = tag
Payload1 == SubSeq(pattern, 2, Len(pattern))
Payload2 == SubSeq(pattern, 3, Len(pattern))

SetMin(S) == CHOOSE n \in S : \A m \in S : n <= m
SetMax(S) == CHOOSE n \in S : \A m \in S : n >= m

\* s[a..b), 0-based and half-open.
Window(s, a, b) == SubSeq(s, a + 1, b)

\* The glob semantics of the specification: '*' any sequence of bytes, '?' any
\* one byte, every other byte itself, the whole candidate against the whole
\* pattern.
RECURSIVE GlobMatches(_, _)
GlobMatches(p, c) ==
  IF p = <<>> THEN c = <<>>
  ELSE IF p[1] = "*" THEN GlobMatches(Tail(p), c) \/ (c # <<>> /\ GlobMatches(p, Tail(c)))
  ELSE c # <<>> /\ (p[1] = "?" \/ p[1] = c[1]) /\ GlobMatches(Tail(p), Tail(c))

\* A pattern of '*', '?' and bytes that no matcher gives a special meaning.
PlainGlob(p) == \A k \in 1..Len(p) : p[k] \notin {"\\", "[", "]"}

\* The lengths of the prefixes (suffixes) of s that the matcher accepts for p.
PrefixLens(s, p) == {n \in 0..Len(s) : Match(p, Window(s, 0, n))}
SuffixLens(s, p) == {n \in 0..Len(s) : Match(p, Window(s, Len(s) - n, Len(s)))}

\* ---------------------------------------------------------------------- C1
\* C1 (as claimed): the matcher of the strip operators accepts a candidate
\* exactly when the whole candidate matches the whole pattern with '*' any
\* sequence of bytes ('/' included), '?' any one byte and every other byte
\* itself; in particular Subst(s, "##*") is empty for every subject s.  Stated
\* here for the patterns made of '*', '?' and ordinary bytes only.
C1_MatcherIsByteGlob ==
  (pc = "return" /\ (Single("#") \/ Double("#") \/ Single("%") \/ Double("%")))
  => LET p == IF Double("#") \/ Double("%") THEN Payload2 ELSE Payload1
     IN /\ PlainGlob(p)
           => \A a \in 0..Len(subject) : \A b \in a..Len(subject) :
                Match(p, Window(subject, a, b)) = GlobMatches(p, Window(subject, a, b))
        /\ pattern = << "#", "#", "*" >> => result = <<>>

\* ---------------------------------------------------------------------- C2
\* C2 (as claimed): for a non-empty subject no suffix of which matches p,
\* Subst(s, "%"+p) returns the empty string and Subst(s, "%%"+p) returns s.
C2_SuffixNoMatchEmptyOrUnchanged ==
  (pc = "return" /\ subject # <<>>)
  => /\ (Single("%") /\ SuffixLens(subject, Payload1) = {}) => result = <<>>
     /\ (Double("%") /\ SuffixLens(subject, Payload2) = {}) => result = subject

\* C2 (amended): for a non-empty subject no suffix of which matches p, both
\* Subst(s, "%"+p) (p not starting with '%') and Subst(s, "%%"+p) return s
\* unchanged.
C2_SuffixNoMatchUnchanged ==
  (pc = "return" /\ subject # <<>>)
  => /\ (Single("%") /\ SuffixLens(subject, Payload1) = {}) => result = subject
     /\ (Double("%") /\ SuffixLens(subject, Payload2) = {}) => result = subject

\* A returned "%"+p call on a non-empty subject none of whose suffixes matches.
C2_Witness ==
  /\ pc = "return" /\ subject # <<>> /\ Single("%")
  /\ SuffixLens(subject, Payload1) = {}
  /\ result = subject

\* ---------------------------------------------------------------------- C3
\* C3: for a non-empty subject and p not starting with '#', Subst(s, "#"+p) is
\* s without its smallest matching prefix (the empty string if none of the
\* lengths 0..len(s) matches) and Subst(s, "##"+p) is s without its largest
\* matching prefix (s itself if none matches); the two results agree whenever p
\* matches at exactly one prefix length.
C3_PrefixStrip ==
  (pc = "return" /\ subject # <<>>)
  => /\ Single("#")
        => LET lens == PrefixLens(subject, Payload1)
           IN /\ result = IF lens = {} THEN <<>>
                          ELSE Window(subject, SetMin(lens), Len(subject))
              /\ Cardinality(lens) = 1
                 => result = stripLeftGreedy(subject, Payload1)
     /\ (Double("#") /\ (Payload2 = <<>> \/ Payload2[1] # "#"))
        => LET lens == PrefixLens(subject, Payload2)
           IN /\ result = IF lens = {} THEN subject
                          ELSE Window(subject, SetMax(lens), Len(subject))
              /\ Cardinality(lens) = 1
                 => result = stripLeft(subject, Payload2)

\* A returned "#"+p call whose pattern matches at more than one prefix length,
\* the shortest of them not the empty prefix.
C3_Witness ==
  /\ pc = "return" /\ subject # <<>> /\ Single("#")
  /\ Cardinality(PrefixLens(subject, Payload1)) > 1
  /\ 0 \notin PrefixLens(subject, Payload1)
  /\ result = Window(subject, SetMin(PrefixLens(subject, Payload1)), Len(subject))

\* ---------------------------------------------------------------- C4, C5
\* p is what the dispatcher takes for the pattern of "/"+p+"/"+r: no '/' in it
\* ends the pattern early and no '\' at its end escapes the delimiter.
Delimited(p) ==
  /\ p = <<>> \/ (p[1] # "/" /\ p[Len(p)] # "\\")
  /\ \A k \in 2..Len(p) : p[k] = "/" => p[k - 1] = "\\"

\* The windows [a,b) of s that match p.
Windows(s, p) ==
  {w \in (0..Len(s)) \X (0..Len(s)) : w[1] <= w[2] /\ Match(p, Window(s, w[1], w[2]))}

\* The find-once strategy: the window at the smallest matching start, its end
\* the largest for a pattern with '*' and the smallest beyond the start for one
\* without.
FoundWindow(s, p) ==
  LET W == IF Contains(p, "*") THEN Windows(s, p)
           ELSE {w \in Windows(s, p) : w[2] > w[1]}
      a == SetMin({w[1] : w \in W})
      ends == {w[2] : w \in {v \in W : v[1] = a}}
  IN IF W = {} THEN << >>
     ELSE << a, IF Contains(p, "*") THEN SetMax(ends) ELSE SetMin(ends) >>

ReplaceOnce(s, p, r) ==
  LET w == FoundWindow(s, p)
  IN IF w = << >> THEN s
     ELSE Window(s, 0, w[1]) \o r \o Window(s, w[2], Len(s))

\* C4 (as claimed): for every subject s, non-empty pattern p and replacement
\* r, Subst(s, "/"+p+"/"+r) is s[0:a] + r + s[b:] for the window [a,b) of the
\* find-once strategy, and s unchanged when no window of s matches p.
C4_SingleReplace ==
  (pc = "return" /\ Single("/"))
  => \A p \in Patterns \ {<<>>} : \A r \in Repls :
       (Delimited(p) /\ pattern = << "/" >> \o p \o << "/" >> \o r)
       => result = ReplaceOnce(subject, p, r)

\* r before every byte of s.
RECURSIVE Interleave(_, _)
Interleave(s, r) ==
  IF s = <<>> THEN <<>> ELSE r \o << s[1] >> \o Interleave(Tail(s), r)

\* The concatenation of C5: find-once on s, then on the tail after each match
\* until the tail is exhausted; a match is replaced once, so after the window
\* [0,0) the tail is copied.
RECURSIVE ReplaceAll(_, _, _)
ReplaceAll(s, p, r) ==
  LET w == FoundWindow(s, p)
  IN IF w = << >> THEN s
     ELSE IF w[2] = 0 THEN r \o s
     ELSE IF w[2] = Len(s) THEN Window(s, 0, w[1]) \o r
     ELSE Window(s, 0, w[1]) \o r \o ReplaceAll(Window(s, w[2], Len(s)), p, r)

GlobalReplace(s, p, r) ==
  IF p = <<>> THEN Interleave(s, r) ELSE ReplaceAll(s, p, r)

\* C5 (as claimed): for every subject, pattern and replacement,
\* Subst(s, "//"+p+"/"+r) is the concatenation obtained by find-once on s and
\* then on the unmatched tail after each match, r before every byte for an
\* empty p: what the loop has written is at every moment a prefix of it, and
\* the returned string is it.
C5_GlobalReplace ==
  (pc \in {"substAll", "return"} /\ Double("/"))
  => \A p \in Patterns : \A r \in Repls :
       (Delimited(p) /\ pattern = << "/", "/" >> \o p \o << "/" >> \o r)
       => /\ pc = "substAll" => IsPrefixOf(builder, GlobalReplace(subject, p, r))
          /\ pc = "return" => result = GlobalReplace(subject, p, r)

\* ---------------------------------------------------------------------- C6
FirstUpper(s) == IF s = <<>> THEN <<>> ELSE << ToUpperByte(s[1]) >> \o Tail(s)
FirstLower(s) == IF s = <<>> THEN <<>> ELSE << ToLowerByte(s[1]) >> \o Tail(s)

\* C6 (as claimed): for every subject, the empty one included, "^" uppercases
\* the first byte, "^^" all bytes, "," lowercases the first byte, ",," all
\* bytes, and none of the four fails.
C6_CaseConversionTotal ==
  Finished
  => /\ pattern = << "^" >> => (pc = "return" /\ result = FirstUpper(subject))
     /\ pattern = << "^", "^" >>
        => (pc = "return" /\ result = [k \in 1..Len(subject) |-> ToUpperByte(subject[k])])
     /\ pattern = << "," >> => (pc = "return" /\ result = FirstLower(subject))
     /\ pattern = << ",", "," >>
        => (pc = "return" /\ result = [k \in 1..Len(subject) |-> ToLowerByte(subject[k])])

\* ---------------------------------------------------------------- C7, C10
\* The integers of the slice expressions, and their decimal texts.
SliceInts == ((0 - MaxNum)..MaxNum) \cup {10, 0 - 10}
IntTexts == {Itoa(n) : n \in SliceInts}
IntOf(t) == CHOOSE n \in SliceInts : Itoa(n) = t

\* The start the claim gives: 0 when omitted or negative, at most len(s).
ClaimedStart(s, st) ==
  IF st = <<>> \/ IntOf(st) < 0 THEN 0
  ELSE IF IntOf(st) > Len(s) THEN Len(s) ELSE IntOf(st)

\* The slice the claim gives for start text st (empty: omitted) and what
\* follows it: nothing (form "none"), a bare ":" (form "bare") or ":"+ln.
ClaimedEnd(s, st, form, ln) ==
  IF form = "none" THEN Len(s)
  ELSE IF form = "bare" THEN ClaimedStart(s, st)
  ELSE IF IntOf(ln) < 0 THEN Len(s) + IntOf(ln)
  ELSE ClaimedStart(s, st) + IntOf(ln)

SliceExpr(st, form, ln) ==
  IF form = "none" THEN << ":" >> \o st
  ELSE IF form = "bare" THEN << ":" >> \o st \o << ":" >>
  ELSE << ":" >> \o st \o << ":" >> \o ln

SliceForms == {"none", "bare", "length"}

\* The call returned the slice the claim gives, when that slice lies in s.
SliceAsClaimed(st, form, ln) ==
  LET start == ClaimedStart(subject, st)
      end == ClaimedEnd(subject, st, form, ln)
  IN (start <= end /\ end <= Len(subject))
     => (pc = "return" /\ result = Window(subject, start, end))

\* C7 (as claimed): Subst(s, ":start:L") is s[start..start+L) for
\* 0 <= start <= start+L <= len(s); a negative L puts the end at len(s)+L, an
\* omitted or negative start is 0, a start beyond len(s) is len(s), an omitted
\* ":L" puts the end at len(s), a bare trailing ":" gives the empty slice.
C7_SliceAsClaimed ==
  (Finished /\ Len(pattern) >= 1 /\ pattern[1] = ":")
  => \A st \in IntTexts \cup {<<>>} : \A form \in SliceForms : \A ln \in IntTexts :
       pattern = SliceExpr(st, form, ln) => SliceAsClaimed(st, form, ln)

\* C7 (amended): as claimed, except that the expression ":" alone (start and
\* ":L" both omitted) signals the malformed-substitution failure.
C7_SliceExceptBareColon ==
  (Finished /\ Len(pattern) >= 1 /\ pattern[1] = ":")
  => /\ pattern = << ":" >>
        => (pc = "panic" /\ panicVal = pattern \o << ": Bad substitution" >>)
     /\ \A st \in IntTexts \cup {<<>>} : \A form \in SliceForms : \A ln \in IntTexts :
          (pattern = SliceExpr(st, form, ln) /\ pattern # << ":" >>)
          => SliceAsClaimed(st, form, ln)

\* A returned ":start:L" call with 0 < start and 0 < L that yields L bytes.
C7_Witness ==
  /\ pc = "return"
  /\ \E a \in 1..MaxNum : \E l \in 1..MaxNum :
       /\ pattern = SliceExpr(Itoa(a), "length", Itoa(l))
       /\ a + l <= Len(subject)
       /\ result = Window(subject, a, a + l)
       /\ Len(result) = l

\* C10 (as claimed): for a slice expression with integer start and length the
\* only failure is the malformed-substitution failure of end < start; the
\* subject is never sliced outside [0, len(s)].
C10_SliceBoundsSafe ==
  (Finished /\ Len(pattern) >= 1 /\ pattern[1] = ":")
  => \A st \in IntTexts : \A form \in SliceForms : \A ln \in IntTexts :
       pattern = SliceExpr(st, form, ln)
       => /\ pc = "panic"
             => /\ panicVal = pattern \o << ": Bad substitution" >>
                /\ ClaimedEnd(subject, st, form, ln) < ClaimedStart(subject, st)
          /\ pc = "return"
             => /\ ClaimedStart(subject, st) <= ClaimedEnd(subject, st, form, ln)
                /\ ClaimedEnd(subject, st, form, ln) <= Len(subject)

\* ---------------------------------------------------------------------- C8
Tags == {"#", "%", "/", "^", ",", "-", "=", "+", "?", ":"}

\* C8: "?" fails on an empty subject, the failure carrying the expression, and
\* returns a non-empty subject unchanged; an expression whose first character
\* is no tag fails as an unknown operator; the empty expression returns the
\* subject unchanged; a failing call returns no string.
C8_FailureContract ==
  Finished
  => /\ (Len(pattern) >= 1 /\ pattern[1] = "?")
        => IF subject = <<>>
           THEN pc = "panic" /\ panicVal = pattern \o << ": Bad substitution" >>
           ELSE pc = "return" /\ result = subject
     /\ (Len(pattern) >= 1 /\ pattern[1] \notin Tags)
        => (pc = "panic" /\ panicVal = << "Unknown pattern: " >> \o pattern)
     /\ pattern = <<>> => (pc = "return" /\ result = subject)
     /\ pc = "panic" => (result = <<>> /\ panicVal # <<>>)
     /\ pc = "return" => panicVal = <<>>

\* The "?" operator has failed on an empty subject.
C8_Witness ==
  /\ pc = "panic" /\ subject = <<>>
  /\ Len(pattern) >= 1 /\ pattern[1] = "?"
  /\ panicVal = pattern \o << ": Bad substitution" >>

\* ---------------------------------------------------------------------- C9
\* C9 (as claimed): a round of substAll that found a match and goes on hands
\* the next round a strictly shorter remainder.
C9_RemainderShrinks ==
  [][(pc = "substAll" /\ pc' = "substAll") => Len(str') < Len(str)]_vars
====
